---- MODULE Spec2Model ----
(***************************************************************************)
(* IA3Module (lycoris/modules/ia3.py): a per-channel scale adapter wrapped *)
(* around one linear or convolutional layer.  Tensors are modelled with    *)
(* exact integer entries; an operation that raises yields a tensor value   *)
(* whose err field names the exception.                                    *)
(***************************************************************************)
EXTENDS Integers, Sequences, FiniteSets, TLC

\* ---------------------------------------------------------------- bounds
\* channel counts of the wrapped layer range over 1..MaxDim
MaxDim == 2
\* the wrapped layer's weight and the inputs are drawn from families 0..MaxSeed
MaxSeed == 0
\* scale-vector entries set by the optimizer range over 0..MaxVal
MaxVal == 1
\* multipliers and scales range over 1..MaxMult
MaxMult == 2
\* depth of nested Python calls after which the interpreter raises RecursionError
RecursionLimit == 2
\* probabilities and random draws lie on the grid k / ProbDen
ProbDen == 2
\* side length of a convolution kernel
KSize == 2

\* ---------------------------------------------------------------- tensors
\* a tensor on the default device; a raised exception; Python's None
Ok(shape, data) == [err |-> "", shape |-> shape, data |-> data, device |-> "cpu"]
Raise(e) == [err |-> e, shape |-> <<>>, data |-> <<>>, device |-> ""]
None == [err |-> "None", shape |-> <<>>, data |-> <<>>, device |-> ""]

RECURSIVE Indices(_)
Indices(shape) ==
    IF shape = <<>> THEN {<<>>}
    ELSE {<<i>> \o r : i \in 0..(shape[1] - 1), r \in Indices(Tail(shape))}

RECURSIVE Numel(_)
Numel(shape) == IF shape = <<>> THEN 1 ELSE shape[1] * Numel(Tail(shape))

RECURSIVE SumFn(_)
SumFn(f) ==
    IF DOMAIN f = {} THEN 0
    ELSE LET k == CHOOSE k \in DOMAIN f : TRUE
         IN f[k] + SumFn([j \in (DOMAIN f) \ {k} |-> f[j]])

\* row-major offset of an index in a contiguous tensor of the given shape
RECURSIVE Flat(_, _)
Flat(idx, shape) ==
    IF shape = <<>> THEN 0
    ELSE idx[1] * Numel(Tail(shape)) + Flat(Tail(idx), Tail(shape))

Max2(a, b) == IF a >= b THEN a ELSE b

\* a shape left-padded with 1s to n axes (broadcasting aligns trailing axes)
PadShape(s, n) ==
    [k \in 1..n |-> IF k <= n - Len(s) THEN 1 ELSE s[k - (n - Len(s))]]

Broadcastable(s, t) ==
    LET n == Max2(Len(s), Len(t))
        ps == PadShape(s, n)
        pt == PadShape(t, n)
    IN \A k \in 1..n : ps[k] = pt[k] \/ ps[k] = 1 \/ pt[k] = 1

BroadcastShape(s, t) ==
    LET n == Max2(Len(s), Len(t))
        ps == PadShape(s, n)
        pt == PadShape(t, n)
    IN [k \in 1..n |-> IF ps[k] = 1 THEN pt[k] ELSE ps[k]]

\* the index of an operand of shape s that a result index idx reads
Proj(idx, s) ==
    [k \in 1..Len(s) |-> IF s[k] = 1 THEN 0 ELSE idx[k + Len(idx) - Len(s)]]

\* tensor * tensor and tensor + tensor, with broadcasting
Mul(A, B) ==
    IF A.err # "" THEN A
    ELSE IF B.err # "" THEN B
    ELSE IF ~Broadcastable(A.shape, B.shape) THEN Raise("RuntimeError")
    ELSE LET sh == BroadcastShape(A.shape, B.shape)
         IN Ok(sh, [idx \in Indices(sh) |->
                      A.data[Proj(idx, A.shape)] * B.data[Proj(idx, B.shape)]])

Add(A, B) ==
    IF A.err # "" THEN A
    ELSE IF B.err # "" THEN B
    ELSE IF ~Broadcastable(A.shape, B.shape) THEN Raise("RuntimeError")
    ELSE LET sh == BroadcastShape(A.shape, B.shape)
         IN Ok(sh, [idx \in Indices(sh) |->
                      A.data[Proj(idx, A.shape)] + B.data[Proj(idx, B.shape)]])

\* tensor * number and tensor + number
MulScalar(A, c) ==
    IF A.err # "" THEN A
    ELSE Ok(A.shape, [idx \in Indices(A.shape) |-> A.data[idx] * c])

AddScalar(A, c) ==
    IF A.err # "" THEN A
    ELSE Ok(A.shape, [idx \in Indices(A.shape) |-> A.data[idx] + c])

Swap01(s) == [k \in 1..Len(s) |-> IF k = 1 THEN s[2] ELSE IF k = 2 THEN s[1] ELSE s[k]]

\* tensor.transpose(0, 1)
Transpose01(A) ==
    IF A.err # "" THEN A
    ELSE IF Len(A.shape) < 2 THEN Raise("IndexError")
    ELSE LET sh == Swap01(A.shape)
         IN Ok(sh, [idx \in Indices(sh) |-> A.data[Swap01(idx)]])

\* the index with row-major offset k in a contiguous tensor of the given shape
RECURSIVE Unflat(_, _)
Unflat(k, shape) ==
    IF shape = <<>> THEN <<>>
    ELSE <<k \div Numel(Tail(shape))>> \o Unflat(k % Numel(Tail(shape)), Tail(shape))

\* tensor.view(shape): the same elements in row-major order under a new shape
View(A, shape) ==
    IF A.err # "" THEN A
    ELSE IF Numel(shape) # Numel(A.shape) THEN Raise("RuntimeError")
    ELSE Ok(shape, [idx \in Indices(shape) |->
                      A.data[Unflat(Flat(idx, shape), A.shape)]])

\* tensor.to(device)
To(A, device) == IF A.err # "" THEN A ELSE [A EXCEPT !.device = device]

Zeros(shape) == Ok(shape, [idx \in Indices(shape) |-> 0])

\* a family of integer tensors with entries in -2..2, indexed by a seed
GenTensor(shape, seed) ==
    Ok(shape, [idx \in Indices(shape) |->
                 (((Flat(idx, shape) + 1) * (seed + 2)) % 5) - 2])

\* ---------------------------------------------------------------- the wrapped layer
\* F.linear(x, W, b): out[.., o] = sum_i x[.., i] * W[o, i] + b[o]
Linear(x, W, b) ==
    IF x.err # "" THEN x
    ELSE IF W.err # "" THEN W
    ELSE IF Len(x.shape) < 1 \/ Len(W.shape) # 2 THEN Raise("RuntimeError")
    ELSE IF x.shape[Len(x.shape)] # W.shape[2] THEN Raise("RuntimeError")
    ELSE LET n == Len(x.shape)
             sh == [x.shape EXCEPT ![n] = W.shape[1]]
         IN Ok(sh, [idx \in Indices(sh) |->
                SumFn([i \in 0..(W.shape[2] - 1) |->
                         x.data[[idx EXCEPT ![n] = i]] * W.data[<<idx[n], i>>]])
                + (IF b = None THEN 0 ELSE b.data[<<idx[n]>>])])

\* F.conv1d / conv2d / conv3d (x, W, b) with stride 1, no padding, no dilation,
\* one group: out[n, o, p] = sum_{i, k} x[n, i, p + k] * W[o, i, k] + b[o]
Conv(x, W, b) ==
    IF x.err # "" THEN x
    ELSE IF W.err # "" THEN W
    ELSE IF Len(W.shape) < 3 \/ Len(x.shape) # Len(W.shape) THEN Raise("RuntimeError")
    ELSE IF x.shape[2] # W.shape[2] THEN Raise("RuntimeError")
    ELSE IF \E k \in 3..Len(W.shape) : x.shape[k] < W.shape[k] THEN Raise("RuntimeError")
    ELSE LET n == Len(W.shape)
             sh == [k \in 1..n |-> IF k = 1 THEN x.shape[1]
                                    ELSE IF k = 2 THEN W.shape[1]
                                    ELSE x.shape[k] - W.shape[k] + 1]
             taps == Indices(Tail(W.shape))
         IN Ok(sh, [idx \in Indices(sh) |->
                SumFn([t \in taps |->
                         x.data[[k \in 1..n |-> IF k = 1 THEN idx[1]
                                                ELSE IF k = 2 THEN t[1]
                                                ELSE idx[k] + t[k - 1]]]
                         * W.data[<<idx[2]>> \o t]])
                + (IF b = None THEN 0 ELSE b.data[<<idx[2]>>])])

\* self.op(x, weight, bias, **self.kw_dict): the operator of the layer's kind
Op(module_type, x, W, b) ==
    IF module_type = "linear" THEN Linear(x, W, b) ELSE Conv(x, W, b)

VARIABLES org_module, adapter, last
vars == <<org_module, adapter, last>>

\* nn.Module.forward of the wrapped layer itself, the layer's un-adapted output
OrigForward(x) ==
    Op(org_module.module_type, x, org_module.weight, org_module.bias)

\* ---------------------------------------------------------------- IA3Module
\* a support set that lacks the 3-D convolution
support_moduleNoConv3d == {"linear", "conv1d", "conv2d"}

support_module == {"linear", "conv1d", "conv2d", "conv3d"}

Scalar(c) == Ok(<<>>, [idx \in {<<>>} |-> c])

NoAdapter ==
    [status |-> "none", error |-> [exc |-> "", kind |-> ""],
     module_type |-> "", shape |-> <<>>, isconv |-> FALSE,
     weight |-> None, on_input |-> None, train_input |-> FALSE,
     multiplier |-> 0, module_dropout |-> 0, bypass_mode |-> FALSE,
     training |-> FALSE, org_forward |-> ""]

\* LycorisBaseModule.__init__: the bookkeeping IA3Module inherits
BaseInit(layer, multiplier, module_dropout, bypass_mode) ==
    [NoAdapter EXCEPT !.module_type = layer.module_type,
                      !.multiplier = multiplier,
                      !.module_dropout = module_dropout,
                      !.bypass_mode = bypass_mode,
                      !.training = TRUE,
                      !.org_forward = layer.forward]

StartsWithConv(t) == t \in {"conv1d", "conv2d", "conv3d"}

\* IA3Module.__init__
IA3Init(layer, multiplier, module_dropout, bypass_mode, train_on_input) ==
    LET base == BaseInit(layer, multiplier, module_dropout, bypass_mode)
    IN IF base.module_type \notin support_module
       THEN [NoAdapter EXCEPT !.status = "failed",
                              !.error = [exc |-> "ValueError",
                                         kind |-> base.module_type]]
       ELSE LET shape == layer.weight.shape
                isconv == StartsWithConv(base.module_type)
                train_dim == IF train_on_input THEN layer.in_dim ELSE layer.out_dim
                wshape == IF isconv
                          THEN <<1, train_dim>> \o [k \in 1..(Len(shape) - 2) |-> 1]
                          ELSE <<train_dim>>
            IN [base EXCEPT !.status = "ok",
                            !.shape = shape,
                            !.isconv = isconv,
                            !.weight = Zeros(wshape),
                            !.multiplier = multiplier,
                            !.train_input = train_on_input,
                            !.on_input = Scalar(IF train_on_input THEN 1 ELSE 0)]

\* make_weight with the baseline on the wrong branch: int(diff) for int(not diff)
MakeWeightSwappedBaseline(self, multiplier, shape, device, diff) ==
    LET weight == AddScalar(MulScalar(self.weight, multiplier), IF diff THEN 1 ELSE 0)
        d1 == IF self.train_input
              THEN Mul(org_module.weight, weight)
              ELSE Transpose01(Mul(Transpose01(org_module.weight), weight))
        d2 == IF shape # <<>> THEN View(d1, shape[1]) ELSE d1
        d3 == IF device # <<>> THEN To(d2, device[1]) ELSE d2
    IN d3

\* make_weight that multiplies without transposing when scaling the output
MakeWeightNoTranspose(self, multiplier, shape, device, diff) ==
    LET weight == AddScalar(MulScalar(self.weight, multiplier), IF diff THEN 0 ELSE 1)
        d1 == Mul(org_module.weight, weight)
        d2 == IF shape # <<>> THEN View(d1, shape[1]) ELSE d1
        d3 == IF device # <<>> THEN To(d2, device[1]) ELSE d2
    IN d3

\* IA3Module.make_weight; shape and device are <<>> for None, <<value>> otherwise
MakeWeight(self, multiplier, shape, device, diff) ==
    LET weight == AddScalar(MulScalar(self.weight, multiplier), IF diff THEN 0 ELSE 1)
        d1 == IF self.train_input
              THEN Mul(org_module.weight, weight)
              ELSE Transpose01(Mul(Transpose01(org_module.weight), weight))
        d2 == IF shape # <<>> THEN View(d1, shape[1]) ELSE d1
        d3 == IF device # <<>> THEN To(d2, device[1]) ELSE d2
    IN d3

\* IA3Module.get_diff_weight(...)[0] and IA3Module.get_merged_weight(...)[0]
GetDiffWeight(self, multiplier, shape, device) ==
    MakeWeight(self, multiplier, shape, device, TRUE)

GetMergedWeight(self, multiplier, shape, device) ==
    MakeWeight(self, multiplier, shape, device, FALSE)

\* the dropout test with "or" for "and" between dropout and training
ForwardPathOr(self, draw) ==
    IF (self.module_dropout # 0 \/ self.training) /\ draw < self.module_dropout
    THEN "skip"
    ELSE IF self.bypass_mode THEN "bypass" ELSE "merged"

\* the branch IA3Module.forward takes for one value of torch.rand(1),
\* draw / ProbDen, with module_dropout a probability module_dropout / ProbDen
ForwardPath(self, draw) ==
    IF self.module_dropout # 0 /\ self.training /\ draw < self.module_dropout
    THEN "skip"
    ELSE IF self.bypass_mode THEN "bypass" ELSE "merged"

RECURSIVE Forward(_, _, _, _), BypassForward(_, _, _, _, _, _), CallOrgForward(_, _, _, _)

\* self.org_forward(x): the saved entry point is the layer's own forward or,
\* when the saved reference is this adapter's forward, a nested call of it;
\* draws[d] is the random draw of the d-th nested forward
CallOrgForward(self, x, draws, depth) ==
    IF self.org_forward = "orig" THEN OrigForward(x)
    ELSE IF depth >= RecursionLimit THEN Raise("RecursionError")
    ELSE Forward(self, x, draws, depth + 1)

\* IA3Module._bypass_forward
BypassForward(self, x, scale, diff, draws, depth) ==
    LET weight == AddScalar(MulScalar(self.weight, scale), IF diff THEN 0 ELSE 1)
        x1 == IF self.train_input THEN Mul(x, weight) ELSE x
        out == CallOrgForward(self, x1, draws, depth)
    IN IF ~self.train_input THEN Mul(out, weight) ELSE out

\* IA3Module.forward
Forward(self, x, draws, depth) ==
    LET path == ForwardPath(self, draws[depth])
    IN IF path = "skip" THEN CallOrgForward(self, x, draws, depth)
       ELSE IF path = "bypass"
       THEN BypassForward(self, x, self.multiplier, FALSE, draws, depth)
       ELSE Op(self.module_type, x,
               GetMergedWeight(self, self.multiplier, <<>>, <<>>),
               org_module.bias)

\* torch's state_dict() / load_state_dict(): the parameter and the buffer are
\* copied by name; a tensor of another shape is refused
StateDict(self) == [weight |-> self.weight, on_input |-> self.on_input]

LoadStateDict(self, sd) ==
    IF self.status # "ok" THEN self
    ELSE IF sd.weight.shape # self.weight.shape \/ sd.on_input.shape # self.on_input.shape
    THEN [NoAdapter EXCEPT !.status = "failed",
                           !.error = [exc |-> "RuntimeError", kind |-> ""]]
    ELSE [self EXCEPT !.weight = sd.weight, !.on_input = sd.on_input]

\* ---------------------------------------------------------------- inputs
Kinds == {"linear", "conv1d", "conv2d", "conv3d", "layernorm", "groupnorm", "unknown"}
Dims == 1..MaxDim
Seeds == 0..MaxSeed
Mults == 1..MaxMult
WMults == {-1} \cup Mults
Probs == 0..ProbDen
Draws == [1..RecursionLimit -> 0..(ProbDen - 1)]

SpatialAxes(kind) ==
    IF kind = "conv1d" THEN 1 ELSE IF kind = "conv2d" THEN 2
    ELSE IF kind = "conv3d" THEN 3 ELSE 0

WeightShape(kind, out, in) ==
    IF kind \in {"layernorm", "groupnorm"} THEN <<out>>
    ELSE <<out, in>> \o [k \in 1..SpatialAxes(kind) |-> KSize]

\* a wrapped layer: nn.Linear(in, out), nn.ConvNd(in, out, KSize), or another module
Layer(kind, out, in, seed, hasbias) ==
    [module_type |-> kind, in_dim |-> in, out_dim |-> out,
     weight |-> GenTensor(WeightShape(kind, out, in), seed),
     bias |-> IF hasbias THEN GenTensor(<<out>>, seed + 1) ELSE None,
     forward |-> "orig"]

\* an input batch of seed + 1 samples for the wrapped layer
Input(layer, seed) ==
    GenTensor(<<seed + 1, layer.in_dim>>
                \o [k \in 1..SpatialAxes(layer.module_type) |-> KSize + 1],
              seed + 1)

ScaleVectors(shape) ==
    {Ok(shape, d) : d \in [Indices(shape) -> 0..MaxVal]}

\* the shape argument: None, or the flattened shape
ShapeArgs(self) == << <<>>, << <<Numel(self.shape)>> >> >>
DeviceArgs == {<<>>, <<"cuda">>}

NoCall(op) ==
    [op |-> op, m |-> 0, shape |-> <<>>, device |-> <<>>, x |-> None,
     draws |-> <<>>, path |-> "", out |-> None]

\* ---------------------------------------------------------------- actions
Init ==
    /\ \E kind \in Kinds, out \in Dims, in \in Dims, seed \in Seeds, hasbias \in BOOLEAN :
           org_module = Layer(kind, out, in, seed, hasbias)
    /\ adapter = NoAdapter
    /\ last = NoCall("")

\* IA3Module(lora_name, org_module, multiplier, ..., module_dropout, ...,
\*           bypass_mode, train_on_input)
Construct(multiplier, module_dropout, bypass_mode, train_on_input) ==
    /\ adapter.status = "none"
    /\ adapter' = IA3Init(org_module, multiplier, module_dropout, bypass_mode,
                          train_on_input)
    /\ last' = NoCall("construct")
    /\ UNCHANGED org_module

\* IA3Module.apply_to
ApplyTo ==
    /\ adapter.status = "ok"
    /\ last.op = ""
    /\ adapter' = [adapter EXCEPT !.org_forward = org_module.forward]
    /\ org_module' = [org_module EXCEPT !.forward = "adapter"]
    /\ UNCHANGED last

\* the optimizer's update of the learnable parameter, between forward passes
OptimizerStep(v) ==
    /\ adapter.status = "ok"
    /\ last.op = ""
    /\ v # adapter.weight
    /\ adapter' = [adapter EXCEPT !.weight = v]
    /\ UNCHANGED <<org_module, last>>

\* nn.Module.train(mode)
Train(mode) ==
    /\ adapter.status = "ok"
    /\ last.op = ""
    /\ mode # adapter.training
    /\ adapter' = [adapter EXCEPT !.training = mode]
    /\ UNCHANGED <<org_module, last>>

\* IA3Module.get_diff_weight(multiplier, shape, device)
CallGetDiffWeight(multiplier, shape, device) ==
    /\ adapter.status = "ok"
    /\ last.op = ""
    /\ last' = [NoCall("get_diff_weight") EXCEPT
                  !.m = multiplier, !.shape = shape, !.device = device,
                  !.out = GetDiffWeight(adapter, multiplier, shape, device)]
    /\ UNCHANGED <<org_module, adapter>>

\* get_merged_weight that relocates the parameter itself to the device
CallGetMergedWeightMovesParam(multiplier, shape, device) ==
    /\ adapter.status = "ok"
    /\ last.op = ""
    /\ last' = [NoCall("get_merged_weight") EXCEPT
                  !.m = multiplier, !.shape = shape, !.device = device,
                  !.out = GetMergedWeight(adapter, multiplier, shape, device)]
    /\ adapter' = [adapter EXCEPT
                     !.weight = IF device # <<>> THEN To(@, device[1]) ELSE @]
    /\ UNCHANGED org_module

\* IA3Module.get_merged_weight(multiplier, shape, device)
CallGetMergedWeight(multiplier, shape, device) ==
    /\ adapter.status = "ok"
    /\ last.op = ""
    /\ last' = [NoCall("get_merged_weight") EXCEPT
                  !.m = multiplier, !.shape = shape, !.device = device,
                  !.out = GetMergedWeight(adapter, multiplier, shape, device)]
    /\ UNCHANGED <<org_module, adapter>>

\* IA3Module.bypass_forward(x, scale)
CallBypassForward(x, scale, draws) ==
    /\ adapter.status = "ok"
    /\ last.op = ""
    /\ last' = [NoCall("bypass_forward") EXCEPT
                  !.m = scale, !.x = x, !.draws = draws,
                  !.out = BypassForward(adapter, x, scale, FALSE, draws, 1)]
    /\ UNCHANGED <<org_module, adapter>>

\* IA3Module.bypass_forward_diff(x, scale)
CallBypassForwardDiff(x, scale, draws) ==
    /\ adapter.status = "ok"
    /\ last.op = ""
    /\ last' = [NoCall("bypass_forward_diff") EXCEPT
                  !.m = scale, !.x = x, !.draws = draws,
                  !.out = BypassForward(adapter, x, scale, TRUE, draws, 1)]
    /\ UNCHANGED <<org_module, adapter>>

\* IA3Module.forward(x)
CallForward(x, draws) ==
    /\ adapter.status = "ok"
    /\ last.op = ""
    /\ last' = [NoCall("forward") EXCEPT
                  !.x = x, !.draws = draws,
                  !.path = ForwardPath(adapter, draws[1]),
                  !.out = Forward(adapter, x, draws, 1)]
    /\ UNCHANGED <<org_module, adapter>>

\* save the adapter's state, build another adapter on the same layer without
\* passing train_on_input, load the saved state into it and materialize its
\* merged weight
Reload(multiplier) ==
    /\ adapter.status = "ok"
    /\ last.op = ""
    /\ LET fresh == IA3Init(org_module, adapter.multiplier,
                            adapter.module_dropout, adapter.bypass_mode, FALSE)
           loaded == LoadStateDict(fresh, StateDict(adapter))
       IN last' = [NoCall("reload") EXCEPT
                     !.m = multiplier,
                     !.x = loaded.on_input,
                     !.out = IF loaded.status = "ok"
                             THEN GetMergedWeight(loaded, multiplier, <<>>, <<>>)
                             ELSE Raise(loaded.error.exc)]
    /\ UNCHANGED <<org_module, adapter>>

\* the caller drops the returned value before its next call
Discard ==
    /\ last.op # ""
    /\ last' = NoCall("")
    /\ UNCHANGED <<org_module, adapter>>

\* the draws a call can observe: nested forwards exist only when the saved
\* reference is the adapter's own forward
DrawsOf(self) ==
    IF self.org_forward = "adapter" THEN Draws
    ELSE {d \in Draws : \A k \in 2..RecursionLimit : d[k] = 0}

\* the whole life of an adapter: construction, attachment, training steps and
\* every entry point
Next ==
    \/ \E m \in Mults, p \in Probs, b \in BOOLEAN, t \in BOOLEAN : Construct(m, p, b, t)
    \/ ApplyTo
    \/ \E v \in ScaleVectors(adapter.weight.shape) : OptimizerStep(v)
    \/ \E mode \in BOOLEAN : Train(mode)
    \/ \E m \in Mults, a \in {<<ShapeArgs(adapter)[1], <<>> >>, <<ShapeArgs(adapter)[2], <<"cuda">> >>} :
          CallGetDiffWeight(m, a[1], a[2])
    \/ \E m \in Mults, a \in {<<ShapeArgs(adapter)[1], <<>> >>, <<ShapeArgs(adapter)[2], <<"cuda">> >>} :
          CallGetMergedWeight(m, a[1], a[2])
    \/ \E s \in Seeds, m \in Mults, d \in DrawsOf(adapter) :
          CallBypassForward(Input(org_module, s), m, d)
    \/ \E s \in Seeds, m \in Mults, d \in DrawsOf(adapter) :
          CallBypassForwardDiff(Input(org_module, s), m, d)
    \/ \E s \in Seeds, d \in DrawsOf(adapter) : CallForward(Input(org_module, s), d)
    \/ \E m \in Mults : Reload(m)
    \/ Discard

Spec == Init /\ [][Next]_vars

\* weight materialization alone, on adapters built with the default multiplier,
\* dropout and bypass mode, over more multipliers and both optional arguments
NextW ==
    \/ \E t \in BOOLEAN : Construct(1, 0, FALSE, t)
    \/ \E v \in ScaleVectors(adapter.weight.shape) : OptimizerStep(v)
    \/ \E m \in WMults, i \in 1..Len(ShapeArgs(adapter)), dev \in DeviceArgs :
          CallGetDiffWeight(m, ShapeArgs(adapter)[i], dev)
    \/ \E m \in WMults, i \in 1..Len(ShapeArgs(adapter)), dev \in DeviceArgs :
          CallGetMergedWeight(m, ShapeArgs(adapter)[i], dev)
    \/ \E m \in WMults : Reload(m)
    \/ Discard

SpecW == Init /\ [][NextW]_vars

\* ---------------------------------------------------------------- claims
IsZero(A) == A = Zeros(A.shape)
DefaultArgs == last.shape = <<>> /\ last.device = <<>>

\* C1: with no shape or device argument, get_merged_weight(m)[0] equals the
\* original weight plus get_diff_weight(m)[0], elementwise, in both scaling
\* modes and for linear and convolutional layers.
C1_MergedIsOrigPlusDiff ==
    (last.op = "get_merged_weight" /\ DefaultArgs)
        => last.out = Add(org_module.weight,
                          GetDiffWeight(adapter, last.m, <<>>, <<>>))

C1_Witness ==
    /\ last.op = "get_merged_weight" /\ DefaultArgs
    /\ adapter.isconv /\ ~adapter.train_input
    /\ ~IsZero(adapter.weight) /\ last.m = -1
    /\ org_module.in_dim # org_module.out_dim

\* the entry of the scale vector for channel ch
VecAt(self, ch) ==
    IF self.isconv
    THEN self.weight.data[[k \in 1..Len(self.weight.shape) |-> IF k = 2 THEN ch ELSE 0]]
    ELSE self.weight.data[<<ch>>]

\* C2: the materialized weight has the shape of W and every element is
\* W[o][i][...] times effective[i] when scaling the input and times
\* effective[o] when scaling the output, effective = v * m + (0 for the
\* diff, 1 for the merged weight).
C2_ScalesChannelAxis ==
    (last.op \in {"get_diff_weight", "get_merged_weight"} /\ DefaultArgs)
        => /\ last.out.err = ""
           /\ last.out.shape = org_module.weight.shape
           /\ \A idx \in Indices(org_module.weight.shape) :
                 LET ch == IF adapter.train_input THEN idx[2] ELSE idx[1]
                     effective == VecAt(adapter, ch) * last.m
                                  + (IF last.op = "get_diff_weight" THEN 0 ELSE 1)
                 IN last.out.data[idx] = org_module.weight.data[idx] * effective

C2_Witness ==
    /\ last.op = "get_diff_weight" /\ DefaultArgs
    /\ org_module.module_type = "conv3d" /\ ~adapter.train_input
    /\ org_module.in_dim < org_module.out_dim
    /\ VecAt(adapter, 0) # VecAt(adapter, 1)
    /\ ~IsZero(last.out)

\* C3: without bias, forward with bypass mode active returns what forward
\* with bypass mode inactive returns, for the same input, multiplier and
\* scale vector, whenever the dropout-skip path is not taken.
C3_BypassEqualsMerged ==
    (last.op = "forward" /\ org_module.bias = None /\ last.path # "skip")
        => last.out = Forward([adapter EXCEPT !.bypass_mode = ~adapter.bypass_mode],
                              last.x, last.draws, 1)

\* C4: an adapter rebuilt from the saved state, without the train_on_input
\* flag, materializes the same merged weight as the original for every
\* multiplier.
C4_ReloadSameMerged ==
    last.op = "reload" => last.out = GetMergedWeight(adapter, last.m, <<>>, <<>>)

\* C5: with module dropout 1.0 in training mode, forward returns the wrapped
\* layer's original output for every draw.
C5_FullDropoutReturnsOriginal ==
    (last.op = "forward" /\ adapter.module_dropout = ProbDen /\ adapter.training)
        => last.out = OrigForward(last.x)

\* C6: forward skips only when module dropout is non-zero, the adapter is
\* training and the draw is below the probability; with dropout 0.0 or outside
\* training it never skips and returns the bypass result in bypass mode and the
\* merged-weight operator result otherwise.
C6_SkipOnlyWhenDropoutTraining ==
    last.op = "forward"
        => /\ last.path = "skip"
                => /\ adapter.module_dropout # 0
                   /\ adapter.training
                   /\ last.draws[1] < adapter.module_dropout
           /\ (adapter.module_dropout = 0 \/ ~adapter.training)
                => /\ last.path # "skip"
                   /\ last.out =
                        IF adapter.bypass_mode
                        THEN BypassForward(adapter, last.x, adapter.multiplier,
                                           FALSE, last.draws, 1)
                        ELSE Op(adapter.module_type, last.x,
                                GetMergedWeight(adapter, adapter.multiplier, <<>>, <<>>),
                                org_module.bias)

C6_Witness ==
    /\ last.op = "forward" /\ last.path = "bypass"
    /\ ~adapter.training /\ adapter.module_dropout = ProbDen
    /\ ~IsZero(adapter.weight) /\ last.out.err = ""

\* C7: once apply_to has run, however often, the saved org_forward is the
\* wrapped layer's original forward.
C7_SavedForwardIsOriginal ==
    org_module.forward = "adapter" => adapter.org_forward = "orig"

\* C8: construction fails, naming the layer kind, exactly when the kind is not
\* linear, conv1d, conv2d or conv3d; a failure leaves no scale vector and no
\* marker; a success leaves an all-zero scale vector.
C8_ConstructionFailsIffUnsupported ==
    last.op = "construct"
        => /\ adapter.status \in {"ok", "failed"}
           /\ adapter.status = "failed"
                <=> org_module.module_type \notin {"linear", "conv1d", "conv2d", "conv3d"}
           /\ adapter.status = "failed"
                => /\ adapter.error = [exc |-> "ValueError",
                                        kind |-> org_module.module_type]
                   /\ adapter.weight = None
                   /\ adapter.on_input = None
           /\ adapter.status = "ok"
                => /\ adapter.weight.err = ""
                   /\ IsZero(adapter.weight)

C8_Witness ==
    /\ last.op = "construct"
    /\ adapter.status = "failed"
    /\ adapter.error.kind = "groupnorm"

\* C9: bypass_forward(x, s) is the wrapped layer's original output plus
\* bypass_forward_diff(x, s), with or without bias, and bypass_forward_diff of
\* a zero scale vector is the zero output.
C9_BypassIsOrigPlusDiff ==
    /\ last.op = "bypass_forward"
         => last.out = Add(OrigForward(last.x),
                           BypassForward(adapter, last.x, last.m, TRUE, last.draws, 1))
    /\ (last.op = "bypass_forward_diff" /\ IsZero(adapter.weight))
         => last.out = Zeros(OrigForward(last.x).shape)

CallOps ==
    {"get_diff_weight", "get_merged_weight", "bypass_forward",
     "bypass_forward_diff", "forward"}

\* C10: a step in which one of the five entry points returns leaves the
\* adapter and the wrapped layer as they were, and a step that changes the
\* scale vector is no such call and changes nothing else of the adapter.
C10_CallsLeaveStateUnchanged ==
    [][/\ (last.op = "" /\ last'.op \in CallOps)
            => (adapter' = adapter /\ org_module' = org_module)
       /\ (adapter.status = "ok" /\ adapter'.weight # adapter.weight)
            => /\ last' = last
               /\ org_module' = org_module
               /\ adapter' = [adapter EXCEPT !.weight = adapter'.weight]]_vars

C10_Witness ==
    /\ last.op = "get_merged_weight"
    /\ last.device = <<"cuda">> /\ last.shape # <<>>
    /\ last.out.device = "cuda"
    /\ adapter.weight.device = "cpu"
    /\ ~IsZero(adapter.weight)

\* ---------------------------------------------------------------- where the refuted claims do hold
\* while the saved reference is the layer's own forward, the two forward paths agree
BypassEqualsMergedWhileSavedOriginal ==
    adapter.org_forward = "orig" => C3_BypassEqualsMerged

\* an adapter that scales the output reloads to the same merged weight
ReloadSameMergedWhenScalingOutput ==
    (last.op = "reload" /\ ~adapter.train_input) => C4_ReloadSameMerged

\* while the saved reference is the layer's own forward, full dropout returns
\* the original output
FullDropoutReturnsOriginalWhileSavedOriginal ==
    adapter.org_forward = "orig" => C5_FullDropoutReturnsOriginal

\* the first apply_to saves the original forward; each later one saves the
\* entry point it finds installed, the adapter's own forward
ApplyToSavesInstalledForward ==
    [][(adapter.status = "ok"
          /\ (org_module'.forward # org_module.forward
                \/ adapter'.org_forward # adapter.org_forward))
         => (adapter'.org_forward = org_module.forward
               /\ org_module'.forward = "adapter")]_vars

\* the diff is a pure perturbation when the output is scaled or the layer has no bias
BypassIsOrigPlusDiffWithoutInputBias ==
    (adapter.org_forward = "orig" /\ (org_module.bias = None \/ ~adapter.train_input))
        => C9_BypassIsOrigPlusDiff

====
